---- MODULE Spec2Model ----
(***************************************************************************)
(* Model of the caption-timing, styling and pipeline logic of reelrunner.  *)
(*                                                                         *)
(* Text is modelled as sequences of one-character strings, so that         *)
(* splitting, cleaning, case conversion, formatting and parsing are        *)
(* computed character by character as the Python code computes them.       *)
(*                                                                         *)
(* Time.  generate_timestamps adds durations                               *)
(*     0.4 * (0.7 + 0.3 * (n / 7))  =  (49 + 3n) / 175  seconds            *)
(* and pauses 0.2 = 35 / 175 seconds, so every value of current_time is a  *)
(* whole number of "ticks" of 1/175 s.  The emitted start/end values are   *)
(* round(t, 2): whole centiseconds.  4t/7 centiseconds is never half-way   *)
(* between two integers (8t = 14k + 7 has no solution), and is at least    *)
(* 1/14 centisecond away from a tie, so the binary floating-point error of *)
(* the running sum cannot change the rounded value: Round2 is exact.       *)
(***************************************************************************)
EXTENDS Integers, Sequences, FiniteSets, TLC

VARIABLES
    prog,           \* which entry point runs
    pc,             \* position inside it
    script,         \* the narration text (sequence of characters)
    words,          \* generate_timestamps: script.split()
    idx,            \* generate_timestamps: index of the token the loop is at
    current_time,   \* generate_timestamps: current_time, in ticks of 1/175 s
    timestamps,     \* generate_timestamps: the list being built / returned
    tsfile,         \* contents of the timestamp file (sequence of characters)
    words_data,     \* whisper_gen: (start, end, word) of the alignment pass
    parsed,         \* make_reel: the (s, e, w) read from the lines of the file
    subs,           \* make_reel: caption clips built from the parsed file
    config,         \* ReelGenerator.config
    video_prompt,   \* where script_data["video_prompt"] comes from
    voice_file,     \* output/audio/voice.mp3 has been written
    duration,       \* script_data["duration"], in seconds
    image_file,     \* output/images/<id>.png has been written
    video_file,     \* output/videos/<id>.mp4 has been written
    caption_clips,  \* compose_reel: caption_clips
    final_file,     \* output/<output_name>: the captions of the rendered reel
    result,         \* what ReelGenerator.generate returned
    failed,         \* the steps of this run that failed
    started,        \* the stages of this run in the order they were entered
    arg,            \* classifier call: the word passed
    color,          \* classifier call: the color returned
    source,         \* background: the clip loaded (video.w, video.h, video.duration)
    audio_duration, \* background: audio.duration
    scaled,         \* background: the clip's size after resize
    background,     \* background: size, duration and timeline of the prepared clip
    voice_length,   \* the length of the narration in voice.mp3, in seconds
    video_id,       \* video_data["video_id"]
    calls,          \* the generation and composition steps invoked, in order
    exit_status,    \* the exit status of the process
    text,           \* humanize_for_tts: the text passed
    cleaned,        \* humanize_for_tts: the text returned
    response_json,  \* generate_video: result = await response.json()
    image_payload,  \* generate_video: image_payload
    http_get        \* the values session.get was called with, in order

tsvars == <<script, words, idx, current_time, timestamps, tsfile, words_data, parsed, subs>>

runvars == <<config, video_prompt, voice_file, duration, image_file, video_file,
             caption_clips, final_file, result, failed>>

clsvars == <<arg, color>>

bgvars == <<source, audio_duration, scaled, background>>

mainvars == <<voice_length, video_id, calls, exit_status>>

humvars == <<text, cleaned>>

payvars == <<response_json, image_payload, http_get>>

(***************************************************************************)
(* Characters                                                              *)
(***************************************************************************)
LowerLetters ==
    <<"a","b","c","d","e","f","g","h","i","j","k","l","m",
      "n","o","p","q","r","s","t","u","v","w","x","y","z">>

UpperLetters ==
    <<"A","B","C","D","E","F","G","H","I","J","K","L","M",
      "N","O","P","Q","R","S","T","U","V","W","X","Y","Z">>

DigitChars == <<"0","1","2","3","4","5","6","7","8","9">>

Range(f) == {f[i] : i \in DOMAIN f}

\* str.isdigit() / \d on the modelled characters
IsDigit(c) == c \in Range(DigitChars)

\* the regular expression class \w
IsWordChar(c) == c \in Range(LowerLetters) \cup Range(UpperLetters) \cup Range(DigitChars) \cup {"_"}

\* the regular expression class \s, and the separators of str.split()
IsSpace(c) == c \in {" ", "\t", "\n"}

LowerChar(c) ==
    IF \E i \in 1..26 : UpperLetters[i] = c
    THEN LowerLetters[CHOOSE i \in 1..26 : UpperLetters[i] = c]
    ELSE c

UpperChar(c) ==
    IF \E i \in 1..26 : LowerLetters[i] = c
    THEN UpperLetters[CHOOSE i \in 1..26 : LowerLetters[i] = c]
    ELSE c

\* str.lower() and str.upper()
Lower(s) == [i \in 1..Len(s) |-> LowerChar(s[i])]

Upper(s) == [i \in 1..Len(s) |-> UpperChar(s[i])]

RECURSIVE Strip(_)
\* str.strip()
Strip(s) ==
    IF s = <<>> THEN s
    ELSE IF IsSpace(s[1]) THEN Strip(Tail(s))
    ELSE IF IsSpace(s[Len(s)]) THEN Strip(SubSeq(s, 1, Len(s) - 1))
    ELSE s

(***************************************************************************)
(* generate_timestamps (scriptgenrator.py)                                 *)
(***************************************************************************)
\* the k-th smallest element of a finite set of integers
Nth(S, k) == CHOOSE i \in S : Cardinality({j \in S : j < i}) = k - 1

\* where a token of s starts: a non-whitespace character at the beginning of
\* s or right after a whitespace character
TokenStarts(s) ==
    {i \in 1..Len(s) : ~IsSpace(s[i]) /\ (i = 1 \/ IsSpace(s[i-1]))}

\* where the token starting at i ends
TokenEnd(s, i) ==
    CHOOSE j \in i..Len(s) :
        /\ \A k \in i..j : ~IsSpace(s[k])
        /\ (j = Len(s) \/ IsSpace(s[j+1]))

\* script.split(): the maximal runs of non-whitespace characters, in order
Split(s) ==
    LET S == TokenStarts(s)
    IN  [k \in 1..Cardinality(S) |-> SubSeq(s, Nth(S, k), TokenEnd(s, Nth(S, k)))]

CleanKeeps(c) == IsWordChar(c) \/ IsSpace(c)

IsLetter(c) == c \in Range(LowerLetters) \cup Range(UpperLetters)

CleanKeepsLetters(c) == IsLetter(c) \/ IsSpace(c)

\* CleanWord with the pattern [^a-zA-Z\s]: digits and "_" are removed too
CleanWord_LettersOnly(word) == SelectSeq(word, CleanKeepsLetters)

\* re.sub(r'[^\w\s]', '', word)
CleanWord(word) == SelectSeq(word, CleanKeeps)

\* '...' in word
HasEllipsis(word) ==
    \E i \in 1..(Len(word) - 2) : word[i] = "." /\ word[i+1] = "." /\ word[i+2] = "."

PauseChars == {",", ".", "!", "?", ":"}

\* HasPause with ';' added to the list of pause marks
HasPause_Semicolon(word) ==
    \/ \E i \in 1..Len(word) : word[i] \in PauseChars \cup {";"}
    \/ HasEllipsis(word)

\* any(p in word for p in [',', '.', '!', '?', '...', ':'])
HasPause(word) ==
    \/ \E i \in 1..Len(word) : word[i] \in PauseChars
    \/ HasEllipsis(word)

\* base_duration = 1.0 / words_per_second = 0.4 s, in ticks of 1/175 s
BaseDuration == 70

\* the pause added after punctuation, 0.2 s, in ticks
PauseTicks == 35

\* base_duration * (0.7 + 0.3 * (char_count / 7)) = base_duration * (49 + 3n) / 70
WordDuration(char_count) == (BaseDuration * (49 + 3 * char_count)) \div 70

\* round(t, 2) of a time of t ticks, in centiseconds: the integer nearest 4t/7
Round2(t) == (8 * t + 7) \div 14


(***************************************************************************)
(* The timestamp file: save_timestamps (scriptgenrator.py), the writer of  *)
(* whisper_gen.py and the loading loop of make_reel.py                     *)
(***************************************************************************)
RECURSIVE DecDigits(_)
\* the decimal digits of a natural number
DecDigits(n) ==
    IF n < 10 THEN <<DigitChars[n + 1]>>
    ELSE Append(DecDigits(n \div 10), DigitChars[(n % 10) + 1])

\* FormatRepr printing one decimal place only
FormatRepr_OneDecimal(c) ==
    DecDigits(c \div 100) \o <<".">> \o <<DigitChars[((c % 100) \div 10) + 1]>>

\* f"{x}" of a float x that is a whole number c of centiseconds (repr: the
\* shortest decimal that reads back as x, always with a fractional part)
FormatRepr(c) ==
    DecDigits(c \div 100) \o <<".">> \o
        ( IF c % 100 = 0 THEN <<"0">>
          ELSE IF c % 10 = 0 THEN <<DigitChars[((c % 100) \div 10) + 1]>>
          ELSE <<DigitChars[((c % 100) \div 10) + 1], DigitChars[(c % 10) + 1]>> )

\* f"{x:.2f}" of a time of ms milliseconds (no modelled input is a tie)
Format2f(ms) ==
    LET c == (ms + 5) \div 10
    IN  DecDigits(c \div 100) \o <<".">> \o
            <<DigitChars[((c % 100) \div 10) + 1], DigitChars[(c % 10) + 1]>>

\* f"{ts['start']}|{ts['end']}|{ts['word']}\n"
SaveLine(ts) ==
    FormatRepr(ts.start) \o <<"|">> \o FormatRepr(ts.end) \o <<"|">> \o ts.word \o <<"\n">>

\* f"{s:.2f}|{e:.2f}|{w}\n"
WhisperLine(wd) ==
    Format2f(wd.start) \o <<"|">> \o Format2f(wd.end) \o <<"|">> \o wd.word \o <<"\n">>

RECURSIVE Concat(_)
\* the lines written one after the other
Concat(lines) ==
    IF lines = <<>> THEN <<>> ELSE Head(lines) \o Concat(Tail(lines))

\* s.split(sep) with a one-character separator: the fields between the
\* occurrences of sep, empty fields kept
SplitOn(s, sep) ==
    LET P == {i \in 1..Len(s) : s[i] = sep}
        n == Cardinality(P)
        pos(k) == IF k = 0 THEN 0 ELSE IF k = n + 1 THEN Len(s) + 1 ELSE Nth(P, k)
    IN  [k \in 1..(n + 1) |-> SubSeq(s, pos(k - 1) + 1, pos(k) - 1)]

\* f.read().splitlines(): a final line break starts no further line
SplitLines(s) ==
    IF s = <<>> THEN <<>>
    ELSE LET parts == SplitOn(s, "\n")
         IN  IF s[Len(s)] = "\n" THEN SubSeq(parts, 1, Len(parts) - 1) ELSE parts

DigitValue(c) == (CHOOSE i \in 1..10 : DigitChars[i] = c) - 1

RECURSIVE DecValue(_)
DecValue(ds) ==
    IF ds = <<>> THEN 0
    ELSE 10 * DecValue(SubSeq(ds, 1, Len(ds) - 1)) + DigitValue(ds[Len(ds)])

AllDigits(ds) == \A i \in 1..Len(ds) : IsDigit(ds[i])

\* the texts the model reads as a float: digits "." one or two digits (every
\* text either writer produces has this shape; any other text counts as
\* unreadable here)
FloatOk(t) ==
    LET p == SplitOn(t, ".")
    IN  /\ Len(p) = 2
        /\ Len(p[1]) >= 1 /\ AllDigits(p[1])
        /\ Len(p[2]) \in {1, 2} /\ AllDigits(p[2])

\* float(t), in centiseconds
ParseFloat(t) ==
    LET p == SplitOn(t, ".")
    IN  100 * DecValue(p[1])
          + (IF Len(p[2]) = 1 THEN 10 * DecValue(p[2]) ELSE DecValue(p[2]))

(***************************************************************************)
(* Colors of make_reel.py                                                  *)
(***************************************************************************)
danger_words ==
    { <<"d","a","n","g","e","r">>, <<"d","e","a","t","h">>, <<"k","i","l","l">>,
      <<"w","a","r","n","i","n","g">>, <<"r","i","s","k">>, <<"s","c","a","r","y">>,
      <<"f","e","a","r">>, <<"d","e","a","d">> }

HasDigit(word) == \E i \in 1..Len(word) : IsDigit(word[i])

\* get_color of make_reel.py
get_color(word) ==
    IF HasDigit(word) THEN "#4CFF00"
    ELSE IF Lower(word) \in danger_words THEN "#FF3B3B"
    ELSE "#FFD93D"

\* word_clip of make_reel.py: the text shown, its color, when and how long
word_clip(word, start, end) ==
    [text |-> Upper(word), color |-> get_color(Upper(word)),
     start |-> start, duration |-> end - start]

\* s,e,w = line.split("|") succeeds and float(s), float(e) succeed
LineOk(line) ==
    LET p == SplitOn(line, "|")
    IN  Len(p) = 3 /\ FloatOk(p[1]) /\ FloatOk(p[2])

\* s,e,w = line.split("|") with float(s) and float(e)
LineFields(line) ==
    LET p == SplitOn(line, "|")
    IN  [start |-> ParseFloat(p[1]), end |-> ParseFloat(p[2]), word |-> p[3]]

\* subs.append(word_clip(w, float(s), float(e)))
LineClip(line) ==
    LET r == LineFields(line)
    IN  word_clip(r.word, r.start, r.end)


(***************************************************************************)
(* Inputs                                                                  *)
(***************************************************************************)
\* the most tokens (separated by single spaces) a drawn script is made of
MaxPieces == 3

\* the most words an alignment pass returns
MaxAlign == 2

Pieces ==
    { <<>>,
      <<"a">>,
      <<"s","t","a","r",".">>,
      <<"E","a","r","t","h","!">>,
      <<"n","u","m","b","e","r","s">>,
      <<".",".",".">>,
      <<"-">>,
      <<"x","-","y",";">>,
      <<"2","0","0","0">>,
      <<"o","k",",","\t","_","b">> }

RECURSIVE JoinWith(_, _)
\* sep.join(parts)
JoinWith(parts, sep) ==
    IF parts = <<>> THEN <<>>
    ELSE IF Len(parts) = 1 THEN parts[1]
    ELSE parts[1] \o sep \o JoinWith(Tail(parts), sep)

SeqsUpTo(S, n) == UNION {[1..k -> S] : k \in 0..n}

\* the scripts the timing functions are applied to
TimingScripts == {JoinWith(ps, <<" ">>) : ps \in SeqsUpTo(Pieces, MaxPieces)}

\* words as the alignment pass reports them (times in milliseconds)
AlignWords ==
    { [start |-> 0,    end |-> 324,  word |-> <<" ","H","i",",">>],
      [start |-> 324,  end |-> 1096, word |-> <<" ","2","0","0","0">>],
      [start |-> 1096, end |-> 1100, word |-> <<" ","k","i","l","l"," ">>] }

AlignInputs == SeqsUpTo(AlignWords, MaxAlign)

(***************************************************************************)
(* Colors and caption clips of reelcomposer.py                             *)
(***************************************************************************)
DANGER_WORDS ==
    { <<"d","a","n","g","e","r">>, <<"d","e","a","t","h">>, <<"k","i","l","l">>,
      <<"w","a","r","n","i","n","g">>, <<"r","i","s","k">>, <<"s","c","a","r","y">>,
      <<"f","e","a","r">>, <<"d","e","a","d">>, <<"d","i","e","d">>,
      <<"d","i","s","a","s","t","e","r">>, <<"t","r","a","g","e","d","y">>,
      <<"h","o","r","r","o","r">> }

HIGHLIGHT_WORDS ==
    { <<"a","m","a","z","i","n","g">>, <<"i","n","c","r","e","d","i","b","l","e">>,
      <<"s","h","o","c","k","i","n","g">>, <<"w","o","w">>,
      <<"u","n","b","e","l","i","e","v","a","b","l","e">>,
      <<"m","i","n","d","-","b","l","o","w","i","n","g">>,
      <<"c","r","a","z","y">>, <<"i","n","s","a","n","e">> }

\* get_word_color without word.lower(): membership is tested on the word as
\* passed
get_word_color_CaseSensitive(word) ==
    IF HasDigit(word) THEN "#4CFF00"
    ELSE IF word \in DANGER_WORDS THEN "#FF3B3B"
    ELSE IF word \in HIGHLIGHT_WORDS THEN "#00D9FF"
    ELSE "#FFD93D"

\* get_word_color of reelcomposer.py
get_word_color(word) ==
    IF HasDigit(word) THEN "#4CFF00"
    ELSE IF Lower(word) \in DANGER_WORDS THEN "#FF3B3B"
    ELSE IF Lower(word) \in HIGHLIGHT_WORDS THEN "#00D9FF"
    ELSE "#FFD93D"

\* create_word_clip with the end time used as the clip's duration
create_word_clip_EndAsDuration(word, start, end) ==
    [text |-> Upper(word), color |-> get_word_color(Upper(word)),
     start |-> start, duration |-> end]

\* create_word_clip of reelcomposer.py (with the color create_text_image
\* resolves for the uppercased text)
create_word_clip(word, start, end) ==
    [text |-> Upper(word), color |-> get_word_color(Upper(word)),
     start |-> start, duration |-> end - start]

RECURSIVE CaptionLoop(_, _, _)
\* compose_reel, lines 211-220: one clip per timestamp, in order; a timestamp
\* whose clip raises (its index is in skipped) is left out
CaptionLoop(tss, i, skipped) ==
    IF i > Len(tss) THEN <<>>
    ELSE ( IF i \in skipped THEN <<>>
           ELSE <<create_word_clip(tss[i].word, tss[i].start, tss[i].end)>> )
         \o CaptionLoop(tss, i + 1, skipped)

(***************************************************************************)
(* Inputs of a run of ReelGenerator.generate and of the classifiers        *)
(***************************************************************************)
Capitalized(w) == IF w = <<>> THEN w ELSE <<UpperChar(w[1])>> \o Tail(w)

\* one-token scripts: each word of the two color sets in lower, upper and
\* capitalized case, bare and followed by a punctuation mark
ListedWordScripts ==
    UNION { { w \o p, Upper(w) \o p, Capitalized(w) \o p } :
            w \in DANGER_WORDS \cup HIGHLIGHT_WORDS, p \in {<<>>, <<"!">>} }

\* the scripts generate_script returns in a modelled run (after
\* humanize_for_tts): an empty text, a text without any word, short texts, a
\* ten-word text and the one-token scripts
RunScripts ==
    ListedWordScripts \cup
    { <<>>,
      <<".",".",".">>,
      <<"W","o","w","!">>,
      <<"R","i","s","k"," ","i","t",","," ","7","u","p">>,
      <<"a"," ","b"," ","c"," ","d"," ","e"," ","f"," ","g"," ","h"," ","i"," ","j">> }

\* the largest caption_group_size a drawn configuration asks for
MaxGroupSize == 4

\* self.config.get("duration", 30)
DefaultDuration == 30

\* the configurations of a modelled run; the keys the code reads keep their
\* defaults, and caption_group_size is a key the configuration may carry
Configs == [caption_group_size : 1..MaxGroupSize, duration : {DefaultDuration}]

\* the lengths (seconds) of the narration edge-tts saves
AudioDurations == {2, 12, 45}

BaseWords ==
    DANGER_WORDS \cup HIGHLIGHT_WORDS
        \cup { <<>>, <<"s","t","a","r">>, <<"e","a","r","t","h">>, <<"d","a","n","g","e","r","s">> }

\* the words the classifiers are called with
ClassifyWords ==
    UNION { { w, Upper(w), Capitalized(w), w \o <<"2">>, <<"5">> \o Upper(w) } : w \in BaseWords }

(***************************************************************************)
(* Background geometry: make_reel.py, compose_reel, create_simple_reel and *)
(* image_to_video.                                                         *)
(*                                                                         *)
(* Python computes the scale factor and the scaled sizes in binary         *)
(* floating point (53-bit significands, round to nearest even) and the     *)
(* resizer truncates them with int().  a / b is the float q / 2^k with     *)
(* q = (a * 2^k - r) / b, 2^52 <= q < 2^53 and r the remainder of the      *)
(* rounding (|r| <= b/2); (a / b) * c is then (a*c)/b - (r*c)/(b * 2^k),   *)
(* rounded again.  For the sizes modelled the error is far below 1/b, so   *)
(* int() gives floor(a*c/b) unless a*c/b is a whole number T and the       *)
(* product rounds to a float below T, which the remainder r decides.  All  *)
(* of it is computed here with small integers (remainders modulo 2b).      *)
(***************************************************************************)
TARGET_W == 720

TARGET_H == 1280

RECURSIVE FloorLog2(_, _)
\* the integer e with 2^e <= a/b < 2^(e+1): the binary exponent of a / b
FloorLog2(a, b) ==
    IF a < b THEN FloorLog2(2 * a, b) - 1
    ELSE IF a >= 2 * b THEN FloorLog2(a, 2 * b) + 1
    ELSE 0

RECURSIVE Pow2(_)
Pow2(k) == IF k <= 0 THEN 1 ELSE 2 * Pow2(k - 1)

RECURSIVE Pow2Mod(_, _)
\* 2^k modulo m
Pow2Mod(k, m) == IF k = 0 THEN 1 % m ELSE (2 * Pow2Mod(k - 1, m)) % m

\* the k for which the significand of a / b is a 53-bit integer
DivExp(a, b) == 52 - FloorLog2(a, b)

\* a * 2^k - q * b for the significand q of the float a / b (round to
\* nearest, ties to even): positive when the quotient was rounded down
DivRem(a, b) ==
    LET c2 == ((a % (2 * b)) * Pow2Mod(DivExp(a, b), 2 * b)) % (2 * b)
        c == c2 % b
        odd == c2 \div b
    IN  IF 2 * c < b THEN c
        ELSE IF 2 * c > b THEN c - b
        ELSE IF odd = 0 THEN c ELSE c - b

\* int((a / b) * c) in floating point
FloatScale(a, b, c) ==
    IF (a * c) % b # 0 THEN (a * c) \div b
    ELSE LET T == (a * c) \div b
             r == DivRem(a, b)
             m == FloorLog2(T, 1)
             x == DivExp(a, b) + m - 53 - (IF T = Pow2(m) THEN 1 ELSE 0)
         IN  IF r > 0 /\ r * c * Pow2(0 - x) > b * Pow2(x) THEN T - 1 ELSE T

\* int(x) of the half-integer n/2: truncation toward zero
IntHalf(n) == IF n >= 0 THEN n \div 2 ELSE 0 - ((0 - n) \div 2)

\* the bounds of the slice a:b of an axis of length n (numpy): a negative
\* index counts from the end, both are clipped to 0..n
SliceIndex(i, n) ==
    IF i < 0 THEN (IF i + n < 0 THEN 0 ELSE i + n) ELSE (IF i > n THEN n ELSE i)

\* the length of pic[a:b] along an axis of length n
SliceLen(a, b, n) ==
    IF SliceIndex(b, n) > SliceIndex(a, n) THEN SliceIndex(b, n) - SliceIndex(a, n) ELSE 0

\* crop(x_center=c, width=size) along an axis of length n, c = n / 2:
\* pic[int(c - size/2) : int(c + size/2)]
CropCentered(n, size) == SliceLen(IntHalf(n - size), IntHalf(n + size), n)

\* video.resize(scale): both sides multiplied by the float scale, truncated
ResizeByScale(a, b, src) == [w |-> FloatScale(a, b, src.w), h |-> FloatScale(a, b, src.h)]

\* scale = max(TARGET_W/video.w, TARGET_H/video.h); video.resize(scale).
\* The two quotients compare as floats the way they compare as fractions.
MaxScaleResize(src) ==
    IF TARGET_W * src.h >= TARGET_H * src.w
    THEN ResizeByScale(TARGET_W, src.w, src)
    ELSE ResizeByScale(TARGET_H, src.h, src)

\* video.crop(x_center=video.w/2, y_center=video.h/2, width=TARGET_W,
\* height=TARGET_H)
CenterCrop(size) ==
    [w |-> CropCentered(size.w, TARGET_W), h |-> CropCentered(size.h, TARGET_H)]

\* video.resize(height=1280): newsize = [w * height / h, height], truncated
\* (w * height is an exact integer, so int() of the float quotient is the
\* floor of the fraction)
HeightResize(src) == [w |-> (src.w * TARGET_H) \div src.h, h |-> TARGET_H]

\* video.crop(x_center=video.w/2, width=720, height=1280): without y1, y2
\* or y_center the rows kept are 0 : video.h
WidthCrop(size) ==
    [w |-> CropCentered(size.w, TARGET_W), h |-> SliceLen(0, size.h, size.h)]

\* padding = (target_width - video.w) // 2; video.margin(left=padding,
\* right=padding)
PadSides(size) ==
    LET padding == (TARGET_W - size.w) \div 2
    IN  [w |-> padding + size.w + padding, h |-> size.h]

\* compose_reel, lines 175-192, and image_to_video, lines 229-235: scale to
\* the target height, crop if too wide, pad if too narrow
CropOrPad(src) ==
    LET video == HeightResize(src)
    IN  IF video.w > TARGET_W THEN WidthCrop(video)
        ELSE IF video.w < TARGET_W THEN PadSides(video)
        ELSE video

\* create_simple_reel, lines 276-278: scale to the target height, crop if
\* too wide
CropOnly(src) ==
    LET video == HeightResize(src)
    IN  IF video.w > TARGET_W THEN WidthCrop(video) ELSE video

(***************************************************************************)
(* Background timing.  A clip's timeline is the sequence of the source     *)
(* instants it shows, one per time unit.                                   *)
(***************************************************************************)
\* video.loop(duration=d): get_frame(t) = source frame at t % video.duration,
\* for a duration of d
Loop(video_duration, d) == [i \in 1..d |-> (i - 1) % video_duration]

\* video.subclip(0, d): get_frame(t) = source frame at t, for a duration of d
Subclip(d) == [i \in 1..d |-> i - 1]

\* LoopOrTrim with the loop left at the video's own length
LoopOrTrim_NoLoop(video_duration, d) ==
    IF video_duration < d THEN Subclip(video_duration) ELSE Subclip(d)

\* compose_reel, lines 199-202
LoopOrTrim(video_duration, d) ==
    IF video_duration < d THEN Loop(video_duration, d) ELSE Subclip(d)

(***************************************************************************)
(* Inputs of the background preparation                                    *)
(***************************************************************************)
\* the largest side of the small source sizes drawn
MaxSide == 40

NoSource == [w |-> 0, h |-> 0, duration |-> 0]

\* the sizes of the sources: every small size, and sizes of real videos and
\* generated images
SourceSizes ==
    {[w |-> w, h |-> h] : w \in 1..MaxSide, h \in 1..MaxSide}
        \cup { [w |-> 1920, h |-> 1080], [w |-> 1080, h |-> 1920], [w |-> 1024, h |-> 1024],
               [w |-> 720, h |-> 1280], [w |-> 768, h |-> 1344], [w |-> 405, h |-> 1280],
               [w |-> 644, h |-> 1200], [w |-> 500, h |-> 1000] }

\* the lengths (in time units) of the source videos and of the narration
SourceDurations == {2, 3, 5}

AudioLengths == {3, 4}

Sources ==
    {[w |-> s.w, h |-> s.h, duration |-> d] : s \in SourceSizes, d \in SourceDurations}

(***************************************************************************)
(* humanize_for_tts (scriptgenrator.py, fetchFact.py and                   *)
(* tempCodeRunnerFile.py)                                                  *)
(***************************************************************************)
RECURSIVE CollapseFrom(_, _)
\* re.sub(r"\s+", " ", text), from position i on
CollapseFrom(s, i) ==
    IF i > Len(s) THEN <<>>
    ELSE IF IsSpace(s[i])
         THEN (IF i > 1 /\ IsSpace(s[i-1]) THEN <<>> ELSE <<" ">>) \o CollapseFrom(s, i + 1)
         ELSE <<s[i]>> \o CollapseFrom(s, i + 1)

\* re.sub(r"\s+", " ", text).strip()
NormalizeWhitespace(s) == Strip(CollapseFrom(s, 1))

RECURSIVE ReplaceFrom(_, _, _, _)
\* s.replace(old, new), from position i on: the occurrences of old, left to
\* right and not overlapping
ReplaceFrom(s, old, new, i) ==
    IF i > Len(s) THEN <<>>
    ELSE IF i + Len(old) - 1 <= Len(s) /\ SubSeq(s, i, i + Len(old) - 1) = old
         THEN new \o ReplaceFrom(s, old, new, i + Len(old))
         ELSE <<s[i]>> \o ReplaceFrom(s, old, new, i + 1)

\* s.replace(old, new)
Replace(s, old, new) == ReplaceFrom(s, old, new, 1)

\* the first position from i on that holds no whitespace (Len(s) + 1 if none)
SkipSpaces(s, i) ==
    IF \E j \in i..Len(s) : ~IsSpace(s[j])
    THEN CHOOSE j \in i..Len(s) : ~IsSpace(s[j]) /\ \A k \in i..(j - 1) : IsSpace(s[k])
    ELSE Len(s) + 1

\* the last position of the run of c that starts at i
RunEnd(s, i, c) ==
    CHOOSE j \in i..Len(s) :
        /\ \A k \in i..j : s[k] = c
        /\ (j = Len(s) \/ s[j+1] # c)

RECURSIVE DedupCommasFrom(_, _)
\* re.sub(r",\s*,+", ", ", s), from position i on: a comma, any whitespace
\* and one or more commas become ", "; the scan goes on after the match
DedupCommasFrom(s, i) ==
    IF i > Len(s) THEN <<>>
    ELSE IF s[i] = "," /\ SkipSpaces(s, i + 1) <= Len(s) /\ s[SkipSpaces(s, i + 1)] = ","
         THEN <<",", " ">> \o DedupCommasFrom(s, RunEnd(s, SkipSpaces(s, i + 1), ",") + 1)
         ELSE <<s[i]>> \o DedupCommasFrom(s, i + 1)

RECURSIVE CapEllipsesFrom(_, _)
\* re.sub(r"\.{4,}", "...", s), from position i on
CapEllipsesFrom(s, i) ==
    IF i > Len(s) THEN <<>>
    ELSE IF s[i] = "."
         THEN LET j == RunEnd(s, i, ".")
              IN  (IF j - i + 1 >= 4 THEN <<".", ".", ".">> ELSE SubSeq(s, i, j))
                      \o CapEllipsesFrom(s, j + 1)
         ELSE <<s[i]>> \o CapEllipsesFrom(s, i + 1)

\* whitespace, ";", ":", " - " and " -- " (the lines the three copies share)
NormalizeDashes(s) ==
    Replace(Replace(Replace(Replace(NormalizeWhitespace(s),
        <<";">>, <<",">>), <<":">>, <<",">>),
        <<" ", "-", " ">>, <<",", " ">>), <<" ", "-", "-", " ">>, <<",", " ">>)

\* cleaned.replace("(", ", ").replace(")", "")
NormalizeParens(s) == Replace(Replace(s, <<"(">>, <<",", " ">>), <<")">>, <<>>)

\* the text before the pause is added: scriptgenrator.py, lines 181-194, and
\* tempCodeRunnerFile.py, lines 65-72
NormalizePunctuation(s) ==
    CapEllipsesFrom(DedupCommasFrom(NormalizeParens(NormalizeDashes(s)), 1), 1)

\* fetchFact.py, lines 80-86: the same without the parentheses
NormalizePunctuationFetchFact(s) ==
    CapEllipsesFrom(DedupCommasFrom(NormalizeDashes(s), 1), 1)

HasPeriod(s) == \E i \in 1..Len(s) : s[i] = "."

FirstPeriod(s) == CHOOSE i \in 1..Len(s) : s[i] = "." /\ \A k \in 1..(i - 1) : s[k] # "."

\* first, rest = cleaned.split(".", 1)
FirstClause(s) == SubSeq(s, 1, FirstPeriod(s) - 1)

RestAfter(s) == SubSeq(s, FirstPeriod(s) + 1, Len(s))

\* the least number of words of an opening clause that gets a pause, in
\* scriptgenrator.py and tempCodeRunnerFile.py, in fetchFact.py, and the most
MinHookWords == 5

MinHookWordsFetchFact == 6

MaxHookWords == 14

\* if "." in cleaned: ... if lo <= len(first.split()) <= 14:
\*     cleaned = f"{first}... {rest.strip()}"
AddPause(s, lo) ==
    IF HasPeriod(s)
       /\ lo <= Len(Split(FirstClause(s)))
       /\ Len(Split(FirstClause(s))) <= MaxHookWords
    THEN FirstClause(s) \o <<".", ".", ".", " ">> \o Strip(RestAfter(s))
    ELSE s

\* humanize_for_tts of scriptgenrator.py
humanize_for_tts(s) == AddPause(NormalizePunctuation(s), MinHookWords)

\* humanize_for_tts of fetchFact.py
humanize_for_tts_fetchFact(s) ==
    AddPause(NormalizePunctuationFetchFact(s), MinHookWordsFetchFact)

\* humanize_for_tts of tempCodeRunnerFile.py
humanize_for_tts_tempCodeRunnerFile(s) ==
    AddPause(NormalizePunctuation(s), MinHookWords)

(***************************************************************************)
(* Inputs of humanize_for_tts                                              *)
(***************************************************************************)
\* the most words of a drawn opening clause
MaxClauseWords == 15

\* a clause of n one-letter words
Clause(n) == JoinWith([i \in 1..n |-> <<"w">>], <<" ">>)

\* what follows the opening clause
Tails ==
    { <<>>,
      <<".">>,
      <<".", " ", "b">>,
      <<".", " ", " ", "b", ".", " ", "c", " ">>,
      <<".", ".", ".", " ", "b">>,
      <<",", " ", "b", ".", ".", ".", ".", ".", "c">>,
      <<";", " ", "b", "!">> }

\* texts with repeated commas, dashes and parentheses
CommaTexts ==
    { <<"a", ",", ",", "b">>,
      <<"a", ",", " ", ",", ",", ",", "b">>,
      <<"a", ",", " ", ",", " ", ",", " ", "b">>,
      <<"a", ";", " ", ":", " ", "b">>,
      <<"a", " ", "-", " ", "b", " ", "-", "-", " ", "c">>,
      <<"a", ",", " ", "-", " ", "b">>,
      <<"a", " ", "(", "b", ")", " ", "c">>,
      <<"a", " ", "(", " ", "b", " ", ")", " ", "c">>,
      <<"a", ",", " ", "(", "b", ")", ",", " ", "c">>,
      <<" ", "a", "\t", "\n", "b", " ", " ">> }

HumanizeTexts ==
    {Clause(n) \o t : n \in 0..MaxClauseWords, t \in Tails} \cup CommaTexts

(***************************************************************************)
(* extract_image_payload and save_generated_image (videogenerator.py)      *)
(*                                                                         *)
(* The decoded JSON response is a tree of records.  What d.get(key)        *)
(* returns is a slot: absent (missing key or null), a string or a number.  *)
(* An object expected under "image_url" is absent, an empty dict ("empty"),*)
(* a dict carrying a "url" slot ("dict"), or a plain string ("str").       *)
(***************************************************************************)
Absent == [kind |-> "absent", str |-> <<>>]

Str(s) == [kind |-> "str", str |-> s]

Num == [kind |-> "num", str |-> <<"7">>]

\* the truth value Python gives to what d.get(key) returned
Truthy(slot) == slot.kind = "num" \/ (slot.kind = "str" /\ slot.str # <<>>)

\* s.startswith("data:image")
StartsWithDataImage(s) ==
    LET prefix == <<"d","a","t","a",":","i","m","a","g","e">>
    IN  Len(s) >= Len(prefix) /\ SubSeq(s, 1, Len(prefix)) = prefix

NoPayload == [type |-> "None", value |-> Absent]

\* lines 131-134 and 150-153: a data URI is typed 'b64', anything else 'url'
UrlPayload(u) ==
    IF u.kind = "str" /\ StartsWithDataImage(u.str) THEN [type |-> "b64", value |-> u]
    ELSE [type |-> "url", value |-> u]

\* lines 129-131 and 148-150: image_url_obj = x.get("image_url") or
\* x.get("imageUrl"); its "url" if it is a dict that has one, else nothing
ImageUrlOf(a, b) ==
    LET image_url_obj == IF a.kind \in {"dict", "str"} THEN a ELSE b
    IN  IF image_url_obj.kind = "dict" /\ Truthy(image_url_obj.url)
        THEN image_url_obj.url ELSE Absent

\* lines 125-139: message.images[0]
FromImages(images) ==
    IF images.kind # "list" \/ images.items = <<>> THEN NoPayload
    ELSE LET first == images.items[1]
         IN  IF first.kind = "null" THEN NoPayload
             ELSE IF ImageUrlOf(first.image_url, first.imageUrl) # Absent
                  THEN UrlPayload(ImageUrlOf(first.image_url, first.imageUrl))
             ELSE IF Truthy(first.url) THEN [type |-> "url", value |-> first.url]
             ELSE IF Truthy(first.b64_json) THEN [type |-> "b64", value |-> first.b64_json]
             ELSE NoPayload

RECURSIVE FromParts(_, _)
\* lines 142-153: the loop over the parts of message.content
FromParts(parts, i) ==
    IF i > Len(parts) THEN NoPayload
    ELSE LET part == parts[i]
         IN  IF /\ part.kind = "dict"
                /\ part.type \in {"image_url", "output_image"}
                /\ ImageUrlOf(part.image_url, part.imageUrl) # Absent
             THEN UrlPayload(ImageUrlOf(part.image_url, part.imageUrl))
             ELSE FromParts(parts, i + 1)

\* lines 120-153: choices[0].message; a null message has no .get and the
\* AttributeError leaves extract_image_payload (type "raise")
FromChoices(choices) ==
    IF choices.kind # "list" \/ choices.items = <<>> THEN NoPayload
    ELSE LET choice == choices.items[1]
         IN  IF choice.kind = "null" \/ choice.message.kind = "absent" THEN NoPayload
             ELSE IF choice.message.kind = "null" THEN [type |-> "raise", value |-> Absent]
             ELSE IF FromImages(choice.message.images) # NoPayload
                  THEN FromImages(choice.message.images)
             ELSE IF choice.message.content.kind = "list"
                  THEN FromParts(choice.message.content.parts, 1)
             ELSE NoPayload

\* lines 156-167: data[0]
FromData(data) ==
    IF data.kind # "list" \/ data.items = <<>> THEN NoPayload
    ELSE LET item == data.items[1]
         IN  IF item.kind # "dict" THEN NoPayload
             ELSE IF Truthy(item.url) THEN [type |-> "url", value |-> item.url]
             ELSE IF Truthy(item.image_url) THEN [type |-> "url", value |-> item.image_url]
             ELSE IF Truthy(item.b64_json) THEN [type |-> "b64", value |-> item.b64_json]
             ELSE IF Truthy(item.b64) THEN [type |-> "b64", value |-> item.b64]
             ELSE NoPayload

\* extract_image_payload(result): (payload_type, payload_value) or None;
\* lines 169-176 probe the keys of the response itself
extract_image_payload(res) ==
    IF FromChoices(res.choices) # NoPayload THEN FromChoices(res.choices)
    ELSE IF FromData(res.data) # NoPayload THEN FromData(res.data)
    ELSE IF Truthy(res.url) THEN [type |-> "url", value |-> res.url]
    ELSE IF Truthy(res.image_url) THEN [type |-> "url", value |-> res.image_url]
    ELSE IF Truthy(res.b64_json) THEN [type |-> "b64", value |-> res.b64_json]
    ELSE NoPayload

\* session.get(payload_value): the statuses a GET can end with; the client
\* raises for a value that is no http(s) URL
GetOutcomes(value) ==
    IF value.kind = "str" /\ Len(value.str) >= 4
          /\ SubSeq(value.str, 1, 4) = <<"h","t","t","p">>
    THEN {"200", "404", "raise"}
    ELSE {"raise"}

\* lines 201-206: the 'b64' branch writes the image unless something raises.
\* A number has no startswith; the data-URI header is cut off with
\* raw.split(",", 1)[1]; base64.b64decode discards the characters outside its
\* alphabet and raises unless the rest is padded to whole quads (stated for
\* texts whose '=' signs are all at the end)
DecodeWrites(value) ==
    LET s == value.str
        raw == IF StartsWithDataImage(s) /\ \E i \in 1..Len(s) : s[i] = ","
               THEN LET i == CHOOSE k \in 1..Len(s) :
                                s[k] = "," /\ \A j \in 1..(k - 1) : s[j] # ","
                    IN  SubSeq(s, i + 1, Len(s))
               ELSE s
        alphabet == Range(LowerLetters) \cup Range(UpperLetters) \cup Range(DigitChars)
                       \cup {"+", "/"}
        n == Cardinality({i \in 1..Len(raw) : raw[i] \in alphabet})
        p == Cardinality({i \in 1..Len(raw) : raw[i] = "="})
    IN  /\ value.kind = "str"
        /\ \/ n % 4 = 0
           \/ n % 4 = 2 /\ p >= 2
           \/ n % 4 = 3 /\ p >= 1

(***************************************************************************)
(* Inputs of extract_image_payload: responses with values at up to two of  *)
(* the probed locations, in several shapes                                 *)
(***************************************************************************)
\* the values found at a location: an empty string, an http URL, an inline
\* data URI (of the one-byte image "A"), bare base64 text and a number
PayloadValues ==
    {Str(<<>>), Str(<<"h","t","t","p","s",":","/","/","x","/","i",".","p","n","g">>),
     Str(<<"d","a","t","a",":","i","m","a","g","e","/","p","n","g",";",
           "b","a","s","e","6","4",",","Q","Q","=","=">>),
     Str(<<"Q","Q","=","=">>), Num}

Locations ==
    {"images.image_url", "images.imageUrl", "images.url", "images.b64_json",
     "content.image_url", "content.imageUrl",
     "data.url", "data.image_url", "data.b64_json", "data.b64",
     "url", "image_url", "b64_json"}

\* the response holding the values f in the shape named
ResponseOf(f, shape) ==
    LET NoObj == [kind |-> "absent", url |-> Absent]
        UrlObjOf(slot, sh) ==
            IF slot # Absent THEN [kind |-> "dict", url |-> slot]
            ELSE IF sh = "image_url_string" THEN [kind |-> "str", url |-> Absent]
            ELSE IF sh = "image_url_empty" THEN [kind |-> "empty", url |-> Absent]
            ELSE NoObj
        image ==
            [kind |-> IF shape = "image_null" THEN "null" ELSE "dict",
             image_url |-> UrlObjOf(f["images.image_url"], shape),
             imageUrl |-> UrlObjOf(f["images.imageUrl"], "plain"),
             url |-> f["images.url"],
             b64_json |-> f["images.b64_json"]]
        part ==
            [kind |-> "dict",
             type |-> IF shape = "part_text" THEN "text"
                      ELSE IF shape = "part_output_image" THEN "output_image"
                      ELSE "image_url",
             image_url |-> UrlObjOf(f["content.image_url"], shape),
             imageUrl |-> UrlObjOf(f["content.imageUrl"], "plain")]
        text_part == [kind |-> "str", type |-> "text", image_url |-> NoObj, imageUrl |-> NoObj]
        message ==
            [kind |-> IF shape = "message_null" THEN "null" ELSE "dict",
             images |-> [kind |-> "list",
                         items |-> IF shape = "images_empty" THEN <<>> ELSE <<image>>],
             content |-> [kind |-> IF shape = "content_string" THEN "str" ELSE "list",
                          parts |-> IF shape = "part_string_first" THEN <<text_part, part>>
                                    ELSE <<part>>]]
        item ==
            [kind |-> IF shape = "item_string" THEN "str" ELSE "dict",
             url |-> f["data.url"],
             image_url |-> f["data.image_url"],
             b64_json |-> f["data.b64_json"],
             b64 |-> f["data.b64"]]
    IN  [choices |-> [kind |-> "list",
                      items |-> IF shape = "choices_empty" THEN <<>>
                                ELSE <<[kind |-> IF shape = "choice_null" THEN "null"
                                                 ELSE "dict",
                                        message |-> message]>>],
         data |-> [kind |-> "list",
                   items |-> IF shape = "data_empty" THEN <<>> ELSE <<item>>],
         url |-> f["url"],
         image_url |-> f["image_url"],
         b64_json |-> f["b64_json"]]

NoResponse == ResponseOf([l \in Locations |-> Absent], "choices_empty")

\* the responses drawn: values at none, one or two of the locations, in each
\* of the shapes the isinstance and emptiness tests of the code tell apart
Responses ==
    LET Fillings ==
            UNION {{[l \in Locations |-> IF l \in S THEN g[l] ELSE Absent] :
                       g \in [S -> PayloadValues]}
                   : S \in {{}} \cup {{a, b} : a \in Locations, b \in Locations}}
        Shapes ==
            {"plain", "choices_empty", "choice_null", "message_null", "images_empty",
             "image_null", "image_url_string", "image_url_empty", "content_string",
             "part_string_first", "part_text", "part_output_image", "data_empty",
             "item_string"}
    IN  {ResponseOf(f, shape) : f \in Fillings, shape \in Shapes}

(***************************************************************************)
(* Actions: timestamp estimation and the timestamp file                    *)
(***************************************************************************)
\* generate_timestamps, lines 264-270: split the script, start at 0.0
TsStart ==
    /\ pc = "ts_init"
    /\ words' = Split(script)
    /\ idx' = 1
    /\ current_time' = 0
    /\ timestamps' = <<>>
    /\ pc' = "ts_loop"
    /\ started' = Append(started, "timestamps")
    /\ UNCHANGED <<prog, payvars, script, tsfile, words_data, parsed, subs>>
    /\ UNCHANGED <<runvars, clsvars, bgvars, humvars, mainvars>>

\* the duration the loop body gives the token word (lines 281-287)
TokenDuration(word) ==
    WordDuration(Len(CleanWord(word))) + (IF HasPause(word) THEN PauseTicks ELSE 0)

\* TsEntry with the end computed as the rounded start plus the rounded duration
TsEntry_RoundedSum(word, t) ==
    [start |-> Round2(t), end |-> Round2(t) + Round2(TokenDuration(word)),
     word |-> CleanWord(word)]

\* the dict the loop body appends (lines 291-295)
TsEntry(word, t) ==
    [start |-> Round2(t), end |-> Round2(t + TokenDuration(word)), word |-> CleanWord(word)]

\* generate_timestamps, lines 272-297: one iteration of the loop
TsStep ==
    /\ pc = "ts_loop"
    /\ idx <= Len(words)
    /\ LET word == words[idx]
       IN  IF CleanWord(word) = <<>>
           THEN UNCHANGED <<current_time, timestamps>>
           ELSE /\ timestamps' = Append(timestamps, TsEntry(word, current_time))
                /\ current_time' = current_time + TokenDuration(word)
    /\ idx' = idx + 1
    /\ UNCHANGED <<prog, payvars, pc, script, words, tsfile, words_data, parsed, subs, started>>
    /\ UNCHANGED <<runvars, clsvars, bgvars, humvars, mainvars>>

\* generate_timestamps, line 299: return timestamps
TsReturn ==
    /\ pc = "ts_loop"
    /\ idx > Len(words)
    /\ pc' = "ts_done"
    /\ UNCHANGED <<prog, payvars, tsvars, started, runvars, clsvars, bgvars, humvars, mainvars>>

\* the text save_timestamps writes
SavedText(tss) == Concat([i \in 1..Len(tss) |-> SaveLine(tss[i])])

\* save_timestamps(timestamps); the estimator harness goes on to read the
\* file, generate_script_and_voice goes on to probe the audio
SaveTimestamps ==
    /\ pc = "ts_done"
    /\ tsfile' = SavedText(timestamps)
    /\ pc' = IF prog = "timing" THEN "load" ELSE "probe"
    /\ started' = Append(started, "save")
    /\ UNCHANGED <<prog, payvars, script, words, idx, current_time, timestamps, words_data, parsed, subs>>
    /\ UNCHANGED <<runvars, clsvars, bgvars, humvars, mainvars>>

\* the text whisper_gen.py writes
WhisperText(wds) ==
    Concat([i \in 1..Len(wds) |-> WhisperLine([wds[i] EXCEPT !.word = Strip(@)])])

\* whisper_gen.py: collect (w.start, w.end, w.word.strip()) and write the file
WhisperGen ==
    /\ pc = "whisper"
    /\ tsfile' = WhisperText(words_data)
    /\ pc' = "load"
    /\ started' = Append(started, "save")
    /\ UNCHANGED <<prog, payvars, script, words, idx, current_time, timestamps, words_data, parsed, subs>>
    /\ UNCHANGED <<runvars, clsvars, bgvars, humvars, mainvars>>

\* make_reel.py, lines 127-134: read the file and build one clip per line; a
\* line that does not unpack into three fields, or whose times do not read as
\* floats, raises ValueError and ends the program
LoadTimestamps ==
    /\ pc = "load"
    /\ LET lines == SplitLines(tsfile)
       IN  IF \A i \in 1..Len(lines) : LineOk(lines[i])
           THEN /\ parsed' = [i \in 1..Len(lines) |-> LineFields(lines[i])]
                /\ subs' = [i \in 1..Len(lines) |-> LineClip(lines[i])]
                /\ pc' = "loaded"
           ELSE /\ parsed' = <<>>
                /\ subs' = <<>>
                /\ pc' = "crashed"
    /\ started' = Append(started, "load")
    /\ UNCHANGED <<prog, payvars, script, words, idx, current_time, timestamps, tsfile, words_data>>
    /\ UNCHANGED <<runvars, clsvars, bgvars, humvars, mainvars>>

(***************************************************************************)
(* Actions: ReelGenerator.generate                                         *)
(***************************************************************************)
\* generate_script_and_voice, line 54: "if not script: return None"
AfterScript(s) == IF s # <<>> THEN "gen_prompt" ELSE "done"

\* AfterVoice without the check of voice_path
AfterVoice_Unchecked(ok) == "ts_init"

\* generate_script_and_voice, line 64: "if not voice_path: return None"
AfterVoice(ok) == IF ok THEN "ts_init" ELSE "done"

\* AfterVideoStep going back to the image request when a step fails
AfterVideoStep_Retry(ok, next) == IF ok THEN next ELSE "vid_request"

\* generate, line 57: "if not video_data: return None", for each of the
\* three steps of generate_video
AfterVideoStep(ok, next) == IF ok THEN next ELSE "done"

\* generate, lines 41-43, 57-59, 73-75: a stage that returned None ends the
\* run with None
ResultAt(p, r) == IF p = "done" THEN "None" ELSE r

\* generate_script: the model call raises, or its text, humanized, is returned
GenerateScript ==
    /\ pc = "gen_script"
    /\ \/ /\ script' = <<>>
          /\ failed' = failed \cup {"script"}
       \/ /\ script' \in RunScripts
          /\ UNCHANGED failed
    /\ pc' = AfterScript(script')
    /\ result' = ResultAt(AfterScript(script'), result)
    /\ started' = Append(started, "script")
    /\ calls' = Append(calls, "script")
    /\ UNCHANGED <<prog, payvars, words, idx, current_time, timestamps, tsfile, words_data, parsed, subs>>
    /\ UNCHANGED <<config, video_prompt, voice_file, duration, image_file, video_file,
                   caption_clips, final_file, clsvars, bgvars, humvars>>
    /\ UNCHANGED <<voice_length, video_id, exit_status>>

\* generate_video_prompt: the model's description, or, when the call raises,
\* the generic prompt of line 174
GenerateVideoPrompt ==
    /\ pc = "gen_prompt"
    /\ \E ok \in BOOLEAN :
          /\ video_prompt' = IF ok THEN "model" ELSE "generic"
          /\ failed' = IF ok THEN failed ELSE failed \cup {"prompt"}
    /\ pc' = "gen_voice"
    /\ started' = Append(started, "prompt")
    /\ calls' = Append(calls, "prompt")
    /\ UNCHANGED <<prog, payvars, tsvars, clsvars, bgvars, humvars, voice_length, video_id, exit_status>>
    /\ UNCHANGED <<config, voice_file, duration, image_file, video_file,
                   caption_clips, final_file, result>>

\* generate_voice: voice.mp3 is saved (a narration of some length), or the
\* synthesis raises and None is returned
GenerateVoice ==
    /\ pc = "gen_voice"
    /\ \/ /\ voice_file' = TRUE
          /\ voice_length' \in AudioDurations
          /\ UNCHANGED failed
          /\ pc' = AfterVoice(TRUE)
          /\ result' = ResultAt(AfterVoice(TRUE), result)
       \/ /\ voice_file' = FALSE
          /\ UNCHANGED voice_length
          /\ failed' = failed \cup {"voice"}
          /\ pc' = AfterVoice(FALSE)
          /\ result' = ResultAt(AfterVoice(FALSE), result)
    /\ started' = Append(started, "voice")
    /\ calls' = Append(calls, "voice")
    /\ UNCHANGED <<prog, payvars, tsvars, clsvars, bgvars, humvars, video_id, exit_status>>
    /\ UNCHANGED <<config, video_prompt, duration, image_file, video_file,
                   caption_clips, final_file>>

\* get_audio_duration and line 83: the duration of voice.mp3, or, when the
\* probe raises (it returns None), the configured duration
ProbeDuration ==
    /\ pc = "probe"
    /\ \/ /\ duration' = voice_length
          /\ UNCHANGED failed
       \/ /\ duration' = config.duration
          /\ failed' = failed \cup {"probe"}
    /\ pc' = "vid_request"
    /\ started' = Append(started, "probe")
    /\ calls' = Append(calls, "probe")
    /\ UNCHANGED <<prog, payvars, tsvars, clsvars, bgvars, humvars, voice_length, video_id, exit_status>>
    /\ UNCHANGED <<config, video_prompt, voice_file, image_file, video_file,
                   caption_clips, final_file, result>>

\* generate_video, lines 54-90: the image request; a status other than 200,
\* an exception, or a response without image payload returns None
VideoRequest ==
    /\ pc = "vid_request"
    /\ \E out \in {"ok", "request", "payload"} :
          /\ failed' = IF out = "ok" THEN failed ELSE failed \cup {out}
          /\ pc' = AfterVideoStep(out = "ok", "vid_save")
          /\ result' = ResultAt(AfterVideoStep(out = "ok", "vid_save"), result)
    /\ started' = Append(started, "video")
    /\ calls' = Append(calls, "request")
    /\ UNCHANGED <<prog, payvars, tsvars, clsvars, bgvars, humvars, voice_length, video_id, exit_status>>
    /\ UNCHANGED <<config, video_prompt, voice_file, duration, image_file, video_file,
                   caption_clips, final_file>>

\* generate_video, lines 92-96: save_generated_image
VideoSave ==
    /\ pc = "vid_save"
    /\ \E ok \in BOOLEAN :
          /\ image_file' = ok
          /\ failed' = IF ok THEN failed ELSE failed \cup {"image"}
          /\ pc' = AfterVideoStep(ok, "vid_convert")
          /\ result' = ResultAt(AfterVideoStep(ok, "vid_convert"), result)
    /\ calls' = Append(calls, "image")
    /\ UNCHANGED <<prog, payvars, tsvars, clsvars, bgvars, humvars, voice_length, video_id, exit_status, started>>
    /\ UNCHANGED <<config, video_prompt, voice_file, duration, video_file,
                   caption_clips, final_file>>

\* generate_video, lines 98-101: image_to_video
VideoConvert ==
    /\ pc = "vid_convert"
    /\ \E ok \in BOOLEAN :
          /\ video_file' = ok
          /\ video_id' = IF ok THEN "request" ELSE video_id
          /\ failed' = IF ok THEN failed ELSE failed \cup {"convert"}
          /\ pc' = AfterVideoStep(ok, "compose")
          /\ result' = ResultAt(AfterVideoStep(ok, "compose"), result)
    /\ calls' = Append(calls, "convert")
    /\ UNCHANGED <<prog, payvars, tsvars, clsvars, bgvars, humvars, voice_length, exit_status, started>>
    /\ UNCHANGED <<config, video_prompt, voice_file, duration, image_file,
                   caption_clips, final_file>>

\* the instant a clip placed with set_start and set_duration ends
ClipEnd(clip) == clip.start + clip.duration

MaxOf(S) == CHOOSE m \in S : \A x \in S : x <= m

\* CompositeVideoClip([video] + caption_clips).duration: the latest end of
\* its clips (centiseconds)
CompositeDuration(video_duration, clips) ==
    MaxOf({video_duration} \cup {ClipEnd(clips[i]) : i \in 1..Len(clips)})

\* compose_reel, lines 196-226: the background, brought to the length of the
\* audio, under the caption clips
FinalClip(video_duration, audio, clips) ==
    [written |-> TRUE, captions |-> clips,
     duration |-> CompositeDuration(100 * Len(LoopOrTrim(video_duration, audio)), clips)]

\* ComposeReel removing the intermediate background video when it fails
ComposeReel_Cleanup ==
    /\ pc = "compose"
    /\ \/ /\ failed' = failed \cup {"compose"}
          /\ result' = "None"
          /\ video_file' = FALSE
          /\ UNCHANGED <<caption_clips, final_file>>
       \/ \E skipped \in SUBSET (1..Len(timestamps)) :
             /\ caption_clips' = CaptionLoop(timestamps, 1, skipped)
             /\ final_file' = FinalClip(duration, voice_length, caption_clips')
             /\ result' = "reel"
             /\ failed' = failed \cup (IF skipped = {} THEN {} ELSE {"caption"})
             /\ UNCHANGED video_file
    /\ pc' = "done"
    /\ started' = Append(started, "compose")
    /\ calls' = Append(calls, "compose")
    /\ UNCHANGED <<prog, payvars, tsvars, clsvars, bgvars, humvars, voice_length, video_id, exit_status>>
    /\ UNCHANGED <<config, video_prompt, voice_file, duration, image_file>>

\* compose_reel: loading or preparing the background raises (None); or the
\* caption loop runs, skipping the words whose clip raises, and the reel is
\* written (its path is returned) or writing raises (None)
ComposeReel ==
    /\ pc = "compose"
    /\ \/ /\ failed' = failed \cup {"compose"}
          /\ result' = "None"
          /\ UNCHANGED <<caption_clips, final_file>>
       \/ \E skipped \in SUBSET (1..Len(timestamps)) :
             /\ caption_clips' = CaptionLoop(timestamps, 1, skipped)
             /\ \/ /\ final_file' = FinalClip(duration, voice_length, caption_clips')
                   /\ result' = "reel"
                   /\ failed' = failed \cup (IF skipped = {} THEN {} ELSE {"caption"})
                \/ /\ UNCHANGED final_file
                   /\ result' = "None"
                   /\ failed' = failed \cup {"compose"}
                                       \cup (IF skipped = {} THEN {} ELSE {"caption"})
    /\ pc' = "done"
    /\ started' = Append(started, "compose")
    /\ calls' = Append(calls, "compose")
    /\ UNCHANGED <<prog, payvars, tsvars, clsvars, bgvars, humvars, voice_length, video_id, exit_status>>
    /\ UNCHANGED <<config, video_prompt, voice_file, duration, image_file, video_file>>

(***************************************************************************)
(* Actions: the classifiers called on a word                               *)
(***************************************************************************)
\* get_word_color(arg)
CallGetWordColor ==
    /\ pc = "call"
    /\ color' = get_word_color(arg)
    /\ pc' = "get_word_color"
    /\ UNCHANGED <<prog, payvars, tsvars, runvars, started, arg, bgvars, humvars, mainvars>>

\* get_color(arg)
CallGetColor ==
    /\ pc = "call"
    /\ color' = get_color(arg)
    /\ pc' = "get_color"
    /\ UNCHANGED <<prog, payvars, tsvars, runvars, started, arg, bgvars, humvars, mainvars>>

(***************************************************************************)
(* Actions: preparing the background in each composition variant           *)
(***************************************************************************)
\* make_reel.py, lines 26-52: max-scale, center crop, loop to the audio
MakeReelBackground ==
    /\ pc = "background"
    /\ scaled' = MaxScaleResize(source)
    /\ background' = [w |-> CenterCrop(scaled').w, h |-> CenterCrop(scaled').h,
                      duration |-> audio_duration,
                      timeline |-> Loop(source.duration, audio_duration)]
    /\ pc' = "make_reel"
    /\ UNCHANGED <<prog, payvars, tsvars, runvars, clsvars, humvars, mainvars, started, source, audio_duration>>

\* compose_reel, lines 168-205: height scale, crop or pad, loop or trim
ComposeReelBackground ==
    /\ pc = "background"
    /\ scaled' = HeightResize(source)
    /\ background' = [w |-> CropOrPad(source).w, h |-> CropOrPad(source).h,
                      duration |-> audio_duration,
                      timeline |-> LoopOrTrim(source.duration, audio_duration)]
    /\ pc' = "compose_reel"
    /\ UNCHANGED <<prog, payvars, tsvars, runvars, clsvars, humvars, mainvars, started, source, audio_duration>>

\* create_simple_reel, lines 272-281: height scale, crop, loop to the audio
CreateSimpleReelBackground ==
    /\ pc = "background"
    /\ scaled' = HeightResize(source)
    /\ background' = [w |-> CropOnly(source).w, h |-> CropOnly(source).h,
                      duration |-> audio_duration,
                      timeline |-> Loop(source.duration, audio_duration)]
    /\ pc' = "create_simple_reel"
    /\ UNCHANGED <<prog, payvars, tsvars, runvars, clsvars, humvars, mainvars, started, source, audio_duration>>

\* image_to_video, lines 228-235: a still of the given duration (in a run,
\* the narration's), height scale, crop or pad
ImageToVideo ==
    /\ pc = "background"
    /\ scaled' = HeightResize(source)
    /\ background' = [w |-> CropOrPad(source).w, h |-> CropOrPad(source).h,
                      duration |-> audio_duration,
                      timeline |-> [i \in 1..audio_duration |-> 0]]
    /\ pc' = "image_to_video"
    /\ UNCHANGED <<prog, payvars, tsvars, runvars, clsvars, humvars, mainvars, started, source, audio_duration>>

(***************************************************************************)
(* Actions: main of reelgenerator.py, and use_fallback_video               *)
(***************************************************************************)
\* main, lines 136-145: "if result: ... else: sys.exit(1)"
ExitStatus(r) == IF r = "None" THEN 1 ELSE 0

\* main: the process ends once generate has returned
MainExit ==
    /\ prog = "generate"
    /\ pc = "done"
    /\ exit_status' = ExitStatus(result)
    /\ pc' = "exited"
    /\ UNCHANGED <<prog, payvars, tsvars, runvars, clsvars, bgvars, humvars, started, voice_length, video_id, calls>>

\* use_fallback_video(): a plain-color 720 x 1280 clip of 30 s is written as
\* output/videos/fallback.mp4, or writing raises and None is returned
UseFallbackVideo ==
    /\ prog = "fallback"
    /\ pc = "fallback"
    /\ \E ok \in BOOLEAN :
          /\ video_file' = ok
          /\ video_id' = IF ok THEN "fallback" ELSE video_id
          /\ background' = IF ok THEN [w |-> 720, h |-> 1280, duration |-> 30,
                                       timeline |-> [i \in 1..30 |-> 0]]
                            ELSE background
          /\ result' = IF ok THEN "fallback" ELSE "None"
          /\ failed' = IF ok THEN failed ELSE failed \cup {"fallback"}
    /\ pc' = "done"
    /\ calls' = Append(calls, "fallback")
    /\ UNCHANGED <<prog, payvars, tsvars, clsvars, humvars, started, source, audio_duration, scaled>>
    /\ UNCHANGED <<config, video_prompt, voice_file, duration, image_file,
                   caption_clips, final_file, voice_length, exit_status>>

(***************************************************************************)
(* Actions: humanize_for_tts called on a text                              *)
(***************************************************************************)
\* humanize_for_tts(text) of scriptgenrator.py
Humanize ==
    /\ pc = "humanize"
    /\ cleaned' = humanize_for_tts(text)
    /\ pc' = "scriptgenrator"
    /\ UNCHANGED <<prog, payvars, tsvars, runvars, clsvars, bgvars, mainvars, started, text>>

\* humanize_for_tts(text) of fetchFact.py
HumanizeFetchFact ==
    /\ pc = "humanize"
    /\ cleaned' = humanize_for_tts_fetchFact(text)
    /\ pc' = "fetchFact"
    /\ UNCHANGED <<prog, payvars, tsvars, runvars, clsvars, bgvars, mainvars, started, text>>

\* humanize_for_tts(text) of tempCodeRunnerFile.py
HumanizeTempCodeRunnerFile ==
    /\ pc = "humanize"
    /\ cleaned' = humanize_for_tts_tempCodeRunnerFile(text)
    /\ pc' = "tempCodeRunnerFile"
    /\ UNCHANGED <<prog, payvars, tsvars, runvars, clsvars, bgvars, mainvars, started, text>>

(***************************************************************************)
(* Actions: generate_video from the decoded response on                    *)
(***************************************************************************)
\* generate_video, lines 87-90: extract_image_payload(result); no payload,
\* or an exception (lines 111-113), ends generate_video with None
ExtractImagePayload ==
    /\ pc = "extract"
    /\ image_payload' = extract_image_payload(response_json)
    /\ pc' = IF extract_image_payload(response_json).type \in {"None", "raise"}
             THEN "no_payload" ELSE "save_image"
    /\ UNCHANGED <<prog, tsvars, runvars, clsvars, bgvars, humvars, mainvars, started,
                   response_json, http_get>>

\* save_generated_image(session, image_payload, request_id): a 'url' payload
\* is fetched with session.get, a 'b64' payload is decoded
SaveGeneratedImage ==
    /\ pc = "save_image"
    /\ \/ /\ image_payload.type = "url"
          /\ http_get' = Append(http_get, image_payload.value)
          /\ \E status \in GetOutcomes(image_payload.value) :
                /\ image_file' = (status = "200")
                /\ pc' = IF status = "200" THEN "image_saved" ELSE "save_failed"
       \/ /\ image_payload.type = "b64"
          /\ image_file' = DecodeWrites(image_payload.value)
          /\ pc' = IF DecodeWrites(image_payload.value) THEN "image_saved" ELSE "save_failed"
          /\ UNCHANGED http_get
    /\ UNCHANGED <<prog, tsvars, clsvars, bgvars, humvars, mainvars, started,
                   response_json, image_payload>>
    /\ UNCHANGED <<config, video_prompt, voice_file, duration, video_file,
                   caption_clips, final_file, result, failed>>

(***************************************************************************)
(* Specification                                                           *)
(***************************************************************************)
vars == <<prog, pc, tsvars, runvars, clsvars, bgvars, humvars, payvars, mainvars, started>>

\* the estimator, the writer and the reader applied to a drawn script
InitTiming ==
    /\ prog = "timing"
    /\ pc = "ts_init"
    /\ script \in TimingScripts
    /\ words_data = <<>>
    /\ config \in {[caption_group_size |-> 1, duration |-> DefaultDuration]}
    /\ arg = <<>>
    /\ source = NoSource
    /\ audio_duration = 0
    /\ text = <<>>
    /\ response_json = NoResponse

\* whisper_gen.py followed by make_reel.py
InitWhisper ==
    /\ prog = "whisper"
    /\ pc = "whisper"
    /\ script = <<>>
    /\ words_data \in AlignInputs
    /\ config \in {[caption_group_size |-> 1, duration |-> DefaultDuration]}
    /\ arg = <<>>
    /\ source = NoSource
    /\ audio_duration = 0
    /\ text = <<>>
    /\ response_json = NoResponse

\* ReelGenerator(config).generate()
InitGenerate ==
    /\ prog = "generate"
    /\ pc = "gen_script"
    /\ script = <<>>
    /\ words_data = <<>>
    /\ config \in Configs
    /\ arg = <<>>
    /\ source = NoSource
    /\ audio_duration = 0
    /\ text = <<>>
    /\ response_json = NoResponse

\* a classifier called on a drawn word
InitClassify ==
    /\ prog = "classify"
    /\ pc = "call"
    /\ script = <<>>
    /\ words_data = <<>>
    /\ config \in {[caption_group_size |-> 1, duration |-> DefaultDuration]}
    /\ arg \in ClassifyWords
    /\ source = NoSource
    /\ audio_duration = 0
    /\ text = <<>>
    /\ response_json = NoResponse

\* the background preparation of a composition variant applied to a drawn
\* source and narration length
InitBackground ==
    /\ prog = "background"
    /\ pc = "background"
    /\ script = <<>>
    /\ words_data = <<>>
    /\ config \in {[caption_group_size |-> 1, duration |-> DefaultDuration]}
    /\ arg = <<>>
    /\ source \in Sources
    /\ audio_duration \in AudioLengths
    /\ text = <<>>
    /\ response_json = NoResponse

\* use_fallback_video() called on its own
InitFallback ==
    /\ prog = "fallback"
    /\ pc = "fallback"
    /\ script = <<>>
    /\ words_data = <<>>
    /\ config \in {[caption_group_size |-> 1, duration |-> DefaultDuration]}
    /\ arg = <<>>
    /\ source = NoSource
    /\ audio_duration = 0
    /\ text = <<>>
    /\ response_json = NoResponse

\* humanize_for_tts called on a drawn text
InitHumanize ==
    /\ prog = "humanize"
    /\ pc = "humanize"
    /\ script = <<>>
    /\ words_data = <<>>
    /\ config \in {[caption_group_size |-> 1, duration |-> DefaultDuration]}
    /\ arg = <<>>
    /\ source = NoSource
    /\ audio_duration = 0
    /\ text \in HumanizeTexts
    /\ response_json = NoResponse

\* generate_video has received a response with status 200
InitPayload ==
    /\ prog = "payload"
    /\ pc = "extract"
    /\ script = <<>>
    /\ words_data = <<>>
    /\ config \in {[caption_group_size |-> 1, duration |-> DefaultDuration]}
    /\ arg = <<>>
    /\ source = NoSource
    /\ audio_duration = 0
    /\ text = <<>>
    /\ response_json \in Responses

Init ==
    /\ InitTiming \/ InitWhisper \/ InitGenerate \/ InitClassify \/ InitBackground \/ InitFallback
          \/ InitHumanize \/ InitPayload
    /\ image_payload = NoPayload
    /\ http_get = <<>>
    /\ words = <<>>
    /\ idx = 1
    /\ current_time = 0
    /\ timestamps = <<>>
    /\ tsfile = <<>>
    /\ parsed = <<>>
    /\ subs = <<>>
    /\ video_prompt = "unset"
    /\ voice_file = FALSE
    /\ duration = 0
    /\ image_file = FALSE
    /\ video_file = FALSE
    /\ caption_clips = <<>>
    /\ final_file = [written |-> FALSE, captions |-> <<>>, duration |-> 0]
    /\ result = "pending"
    /\ failed = {}
    /\ started = <<>>
    /\ color = "unset"
    /\ voice_length = 0
    /\ video_id = "unset"
    /\ calls = <<>>
    /\ exit_status = "running"
    /\ cleaned = <<>>
    /\ scaled = [w |-> 0, h |-> 0]
    /\ background = [w |-> 0, h |-> 0, duration |-> 0, timeline |-> <<>>]

Next ==
    \/ TsStart
    \/ TsStep
    \/ TsReturn
    \/ SaveTimestamps
    \/ WhisperGen
    \/ LoadTimestamps
    \/ GenerateScript
    \/ GenerateVideoPrompt
    \/ GenerateVoice
    \/ ProbeDuration
    \/ VideoRequest
    \/ VideoSave
    \/ VideoConvert
    \/ ComposeReel
    \/ CallGetWordColor
    \/ CallGetColor
    \/ MakeReelBackground
    \/ ComposeReelBackground
    \/ CreateSimpleReelBackground
    \/ ImageToVideo
    \/ MainExit
    \/ UseFallbackVideo
    \/ Humanize
    \/ HumanizeFetchFact
    \/ HumanizeTempCodeRunnerFile
    \/ ExtractImagePayload
    \/ SaveGeneratedImage

Spec == Init /\ [][Next]_vars

(***************************************************************************)
(* Properties                                                              *)
(***************************************************************************)
\* generate_timestamps has returned in this run
TsReturned ==
    /\ prog \in {"timing", "generate"}
    /\ \E i \in 1..Len(started) : started[i] = "timestamps"
    /\ pc \notin {"ts_init", "ts_loop"}

\* the characters of the modelled texts that are neither word characters nor
\* whitespace
Punctuation == {".", ",", "!", "?", ":", ";", "-", "'", "|"}

RECURSIVE UsableFrom(_, _, _)
\* the number of whitespace-separated tokens of s, from position i on, that
\* keep at least one character when punctuation is removed (has: the token
\* being read already has one)
UsableFrom(s, i, has) ==
    IF i > Len(s) THEN (IF has THEN 1 ELSE 0)
    ELSE IF s[i] \in {" ", "\t", "\n"}
         THEN (IF has THEN 1 ELSE 0) + UsableFrom(s, i + 1, FALSE)
         ELSE UsableFrom(s, i + 1, has \/ s[i] \notin Punctuation)

\* C1: for every non-empty script, the sequence generate_timestamps returns
\* has as many entries as the script has whitespace-separated tokens that are
\* non-empty after punctuation stripping, its first start is 0.0, and
\* start[i] <= end[i] <= start[i+1] holds for the emitted (rounded) values.
C1_TimestampsOrdered ==
    (TsReturned /\ script # <<>>) =>
        /\ Len(timestamps) = UsableFrom(script, 1, FALSE)
        /\ (timestamps # <<>> => timestamps[1].start = 0)
        /\ \A i \in 1..Len(timestamps) : timestamps[i].start <= timestamps[i].end
        /\ \A i \in 1..(Len(timestamps) - 1) : timestamps[i].end <= timestamps[i+1].start

\* a script with a dropped token and a pause has been estimated: three words
C1_Witness ==
    /\ TsReturned
    /\ pc = "ts_done"
    /\ Len(timestamps) = 3
    /\ Len(words) > Len(timestamps)
    /\ timestamps[3].start > 0
    /\ \E i \in 1..Len(words) : HasPause(words[i])

NotPunctuation(c) == c \notin Punctuation

RECURSIVE NormalizeFrom(_, _, _, _)
\* s from position i on with every run of whitespace replaced by one space
\* and no whitespace at either end (gap: whitespace was skipped since the last
\* character put out; any: a character has been put out)
NormalizeFrom(s, i, gap, any) ==
    IF i > Len(s) THEN <<>>
    ELSE IF s[i] \in {" ", "\t", "\n"} THEN NormalizeFrom(s, i + 1, TRUE, any)
    ELSE (IF gap /\ any THEN <<" ">> ELSE <<>>) \o <<s[i]>>
            \o NormalizeFrom(s, i + 1, FALSE, TRUE)

\* C2: joining the word fields of generate_timestamps' output with single
\* spaces gives exactly the script with every non-word, non-whitespace
\* character removed and its whitespace normalized.
C2_WordsReproduceScript ==
    TsReturned =>
        JoinWith([i \in 1..Len(timestamps) |-> timestamps[i].word], <<" ">>)
            = NormalizeFrom(SelectSeq(script, NotPunctuation), 1, FALSE, FALSE)

\* a script with punctuation inside a token, a dropped token, a digit token
\* and irregular whitespace has been estimated
C2_Witness ==
    /\ TsReturned
    /\ Len(timestamps) >= 3
    /\ Len(words) > Len(timestamps)
    /\ \E i \in 1..Len(timestamps) : HasDigit(timestamps[i].word)
    /\ \E i \in 1..Len(script) : script[i] = "\t"
    /\ \E i \in 1..Len(script) : script[i] = "-"

\* C3: the duration generate_timestamps gives an emitted word of n cleaned
\* characters is 0.4 * (0.7 + 0.3 * (n / 7)) s, plus 0.2 s exactly when the
\* unstripped token contains one of , . ! ? ... : (in ticks of 1/175 s:
\* 100 * duration = 25 * (196 + 12 n), plus 100 * 35), so that a word of 7
\* characters without punctuation gets exactly 0.4 s = 70 ticks.
C3_WordDuration ==
    [][ (pc = "ts_loop" /\ idx <= Len(words) /\ timestamps' # timestamps) =>
          LET tok == words[idx]
              n == Len(timestamps'[Len(timestamps')].word)
              marked == \E i \in 1..Len(tok) : tok[i] \in {",", ".", "!", "?", ":"}
              d == current_time' - current_time
          IN  /\ 100 * d = 25 * (196 + 12 * n) + (IF marked THEN 3500 ELSE 0)
              /\ (n = 7 /\ ~marked) => d = 70
      ]_vars

\* a 7-character word without punctuation (0.4 s), a word followed by a
\* pause mark and a token with a ';' have been given their durations
C3_Witness ==
    /\ TsReturned
    /\ Len(words) = 3
    /\ Len(timestamps) = 3
    /\ \E i \in 1..3 : Len(words[i]) = 7 /\ Len(timestamps[i].word) = 7
                       /\ timestamps[i].end - timestamps[i].start = 40
    /\ \E i \in 1..3 : \E k \in 1..Len(words[i]) : words[i][k] = "!"
    /\ \E i \in 1..3 : \E k \in 1..Len(words[i]) : words[i][k] = ";"

\* C4: when generate_timestamps returns an empty sequence, composition is
\* skipped and the run reports failure: generate returns None and compose_reel
\* renders no output file (stated for the runs in which no step failed).
C4_EmptyInputFails ==
    (prog = "generate" /\ pc = "done" /\ failed = {} /\ TsReturned /\ timestamps = <<>>) =>
        /\ \A i \in 1..Len(started) : started[i] # "compose"
        /\ ~final_file.written
        /\ result = "None"

\* the two words are the same up to the case of their letters
SameLetters(a, b) ==
    /\ Len(a) = Len(b)
    /\ \A i \in 1..Len(a) :
          \/ a[i] = b[i]
          \/ \E k \in 1..26 : {a[i], b[i]} = {LowerLetters[k], UpperLetters[k]}

InAnyCase(w, S) == \E d \in S : SameLetters(w, d)

ContainsDigit(w) ==
    \E i \in 1..Len(w) : w[i] \in {"0","1","2","3","4","5","6","7","8","9"}

\* C5: the classifier applies its rules in priority order, first match wins,
\* whatever the letter case: a digit gives the numeric color; else a word of
\* the danger set the danger color; else a word of the highlight set the
\* highlight color; else the default color (get_color of make_reel.py has its
\* own, smaller danger set and no highlight set).
C5_ColorPriority ==
    /\ pc = "get_word_color" =>
          color = IF ContainsDigit(arg) THEN "#4CFF00"
                  ELSE IF InAnyCase(arg, DANGER_WORDS) THEN "#FF3B3B"
                  ELSE IF InAnyCase(arg, HIGHLIGHT_WORDS) THEN "#00D9FF"
                  ELSE "#FFD93D"
    /\ pc = "get_color" =>
          color = IF ContainsDigit(arg) THEN "#4CFF00"
                  ELSE IF InAnyCase(arg, danger_words) THEN "#FF3B3B"
                  ELSE "#FFD93D"

\* get_word_color has been called on "danger2" and returned the numeric
\* color, and get_color likewise
C5_Witness ==
    /\ pc \in {"get_word_color", "get_color"}
    /\ arg = <<"d","a","n","g","e","r","2">>
    /\ color = "#4CFF00"

\* the number of words (whitespace-separated tokens) a caption shows
CaptionWords(clip) == UsableFrom(clip.text, 1, FALSE)

\* a reel has been written and every caption clip was rendered
ReelComplete ==
    /\ prog = "generate"
    /\ result = "reel"
    /\ failed = {}

ShowsWord(clip, ts) ==
    /\ SameLetters(clip.text, ts.word)
    /\ clip.start = ts.start
    /\ clip.duration = ts.end - ts.start

C7_FailureAborts ==
    (prog = "generate" /\ pc = "done" /\ failed # {} /\ ~(TsReturned /\ timestamps = <<>>)) =>
        /\ result = "None"
        /\ ~final_file.written

\* the position of a stage in the forward order of a run
StageRank(st) ==
    CASE st = "script" -> 1
      [] st = "prompt" -> 2
      [] st = "voice" -> 3
      [] st = "timestamps" -> 4
      [] st = "save" -> 5
      [] st = "probe" -> 6
      [] st = "video" -> 7
      [] st = "compose" -> 8
      [] OTHER -> 0

Entered(st) == \E i \in 1..Len(started) : started[i] = st

\* C8: in a run of generate the stages are entered strictly in forward
\* order, none twice, each only after the previous succeeded: voice synthesis
\* only with a non-empty script, timestamp estimation and persistence only
\* with the voice file, background generation only with the script data,
\* composition only with voice, timestamps and background video.
C8_ForwardOrder ==
    prog = "generate" =>
        /\ \A i, j \in 1..Len(started) :
              i < j => StageRank(started[i]) < StageRank(started[j])
        /\ \A i \in 2..Len(started) : Entered("script")
        /\ Entered("voice") => (script # <<>> /\ "script" \notin failed)
        /\ Entered("timestamps") => (voice_file /\ "voice" \notin failed)
        /\ Entered("save") => (voice_file /\ TsReturned)
        /\ Entered("video") =>
              (script # <<>> /\ voice_file /\ Entered("save") /\ Entered("probe"))
        /\ Entered("compose") =>
              (voice_file /\ Entered("save") /\ TsReturned /\ image_file /\ video_file)

\* a run went through every stage and returned a reel
C8_Witness ==
    /\ prog = "generate"
    /\ result = "reel"
    /\ started = <<"script", "prompt", "voice", "timestamps", "save", "probe",
                   "video", "compose">>

\* the text is digits, a point and exactly two digits
TwoDecimals(t) ==
    LET p == SplitOn(t, ".")
    IN  Len(p) = 2 /\ Len(p[1]) >= 1 /\ AllDigits(p[1]) /\ Len(p[2]) = 2 /\ AllDigits(p[2])

\* C9: every line of the timestamp file is start|end|word with both times
\* printed with exactly 2 decimal places, whichever writer wrote it.
C9_TwoDecimalLines ==
    \A line \in Range(SplitLines(tsfile)) :
        LET p == SplitOn(line, "|")
        IN  Len(p) = 3 /\ TwoDecimals(p[1]) /\ TwoDecimals(p[2])

Within1(a, b) == a - b \in {-1, 0, 1}

\* C10: writing N word timestamps with save_timestamps and parsing the file
\* with the loading loop of make_reel.py gives exactly N records, in the same
\* order, with the same word and with start and end within 0.01 s.
C10_RoundTrip ==
    (prog = "timing" /\ pc \in {"loaded", "crashed"}) =>
        /\ pc = "loaded"
        /\ Len(parsed) = Len(timestamps)
        /\ \A i \in 1..Len(parsed) :
              /\ parsed[i].word = timestamps[i].word
              /\ Within1(parsed[i].start, timestamps[i].start)
              /\ Within1(parsed[i].end, timestamps[i].end)

\* three timestamps, among them times with one and with two decimals, have
\* been written and read back
C10_Witness ==
    /\ prog = "timing"
    /\ pc = "loaded"
    /\ Len(parsed) = 3
    /\ \E i \in 1..3 : timestamps[i].end % 10 # 0
    /\ \E i \in 1..3 : timestamps[i].end % 10 = 0 /\ timestamps[i].end % 100 # 0

\* C11: max-scale then center-crop (make_reel.py): for every source of
\* positive width and height the scaled source covers the target in both
\* dimensions (scaled width >= 720 and scaled height >= 1280) and the
\* center-cropped result is exactly 720 x 1280; a 1920 x 1080 source scales
\* to 2275 x 1280.
C11_CoverAndCrop ==
    pc = "make_reel" =>
        /\ scaled.w >= 720
        /\ scaled.h >= 1280
        /\ background.w = 720
        /\ background.h = 1280
        /\ (source.w = 1920 /\ source.h = 1080) => (scaled.w = 2275 /\ scaled.h = 1280)

\* C12: in every composition variant the prepared background lasts exactly
\* as long as the audio: a visual shorter than the audio is looped (instant
\* t shows the source at t modulo its length), a longer or equal one is cut
\* to its first audio-length part.
C12_DurationMatchesAudio ==
    pc \in {"make_reel", "compose_reel", "create_simple_reel"} =>
        /\ background.duration = audio_duration
        /\ Len(background.timeline) = audio_duration
        /\ \A i \in 1..Len(background.timeline) :
              LET t == i - 1
                  shown == background.timeline[i]
              IN  /\ shown < source.duration
                  /\ source.duration >= audio_duration => shown = t
                  /\ source.duration < audio_duration =>
                        \E n \in 0..audio_duration : t = n * source.duration + shown

\* compose_reel has looped a 2-unit visual under a 3-unit narration
C12_Witness ==
    /\ pc = "compose_reel"
    /\ source.duration = 2
    /\ audio_duration = 3
    /\ background.timeline = <<0, 1, 0>>

\* C20: height-scale then crop-or-pad (compose_reel, image_to_video): the
\* resulting frame is exactly 720 wide and 1280 high for every source size.
C20_CropOrPadExact ==
    pc \in {"compose_reel", "image_to_video"} =>
        /\ background.w = 720
        /\ background.h = 1280

\* the call a failed step was made by
CallOf(step) == IF step = "payload" THEN "request" ELSE step

TimesCalled(c) == Cardinality({i \in 1..Len(calls) : calls[i] = c})

\* C13: no stage is retried: once the script call, the voice synthesis, the
\* image request, the image download or the composition has failed, that step
\* was invoked exactly once and nothing is invoked after it; generate returns
\* None and the process exits with status 1.
C13_NoRetry ==
    prog = "generate" =>
        \A step \in failed \cap {"script", "voice", "request", "payload", "image", "compose"} :
            /\ TimesCalled(CallOf(step)) = 1
            /\ calls[Len(calls)] = CallOf(step)
            /\ result = "None"
            /\ pc \in {"done", "exited"}
            /\ pc = "exited" => exit_status = 1

\* the image download failed: the run ended there with None and status 1
C13_Witness ==
    /\ prog = "generate"
    /\ pc = "exited"
    /\ failed = {"image"}
    /\ calls = <<"script", "prompt", "voice", "probe", "request", "image">>
    /\ exit_status = 1

\* C14: no step of a run, failing or not, deletes, truncates or rewrites an
\* artifact an earlier stage has written: the voice file, the timestamp file,
\* the downloaded image and the intermediate background video stay as they are.
C14_ArtifactsKept ==
    [][ prog = "generate" =>
          /\ voice_file => (voice_file' /\ voice_length' = voice_length)
          /\ Entered("save") => tsfile' = tsfile
          /\ image_file => image_file'
          /\ video_file => video_file'
      ]_vars

\* composition failed after every earlier stage had written its artifact,
\* and the artifacts are there
C14_Witness ==
    /\ prog = "generate"
    /\ pc = "done"
    /\ "compose" \in failed
    /\ result = "None"
    /\ voice_file /\ image_file /\ video_file
    /\ Len(SplitLines(tsfile)) = 3

\* C15: a run of generate never silently substitutes default content: the
\* fallback visual is produced only by use_fallback_video called on its own,
\* and a run that reports success used the model's video prompt and the
\* narration's measured duration, not a built-in default (stated for the
\* runs whose script has at least one word).
C15_NoSilentDefault ==
    /\ video_id = "fallback" => prog = "fallback"
    /\ (prog = "generate" /\ result = "reel" /\ timestamps # <<>>) =>
          /\ video_id = "request"
          /\ video_prompt = "model"
          /\ duration = voice_length

Blank(c) == c \in {" ", "\t", "\n"}

\* C16: the output of humanize_for_tts has no two commas that are adjacent
\* or separated only by whitespace, and no run of two or more whitespace
\* characters.
C16_CommasAndSpacesCollapsed ==
    pc \in {"scriptgenrator", "fetchFact"} =>
        /\ \A i, j \in 1..Len(cleaned) :
              (i < j /\ cleaned[i] = "," /\ cleaned[j] = ",") =>
                  \E k \in (i + 1)..(j - 1) : ~Blank(cleaned[k])
        /\ \A i \in 1..(Len(cleaned) - 1) : ~(Blank(cleaned[i]) /\ Blank(cleaned[i+1]))

\* the number of whitespace-separated words of s before position p
WordsBefore(s, p) ==
    Cardinality({i \in 1..(p - 1) : ~Blank(s[i]) /\ (i = 1 \/ Blank(s[i-1]))})

\* C17: every copy of humanize_for_tts replaces the first period of the
\* punctuation-normalized text by an ellipsis and one space exactly when the
\* text before that period has between 5 and 14 words; otherwise it returns
\* the punctuation-normalized text.
C17_OpeningPause ==
    pc \in {"scriptgenrator", "fetchFact", "tempCodeRunnerFile"} =>
        LET norm == IF pc = "fetchFact" THEN NormalizePunctuationFetchFact(text)
                    ELSE NormalizePunctuation(text)
            periods == {i \in 1..Len(norm) : norm[i] = "."}
        IN  IF periods # {} /\ WordsBefore(norm, Nth(periods, 1)) \in 5..14
            THEN cleaned = SubSeq(norm, 1, Nth(periods, 1) - 1) \o <<".", ".", ".", " ">>
                              \o Strip(SubSeq(norm, Nth(periods, 1) + 1, Len(norm)))
            ELSE cleaned = norm

\* C18: per-word captions: compose_reel creates exactly one caption per
\* WordTimestamp, in sequence order, showing the uppercased word from start
\* for end - start, so that no two captions are on screen at the same
\* instant (stated for the runs in which no step outside the caption loop
\* failed).
C18_OneCaptionPerWord ==
    (prog = "generate" /\ result = "reel" /\ failed \subseteq {"caption"}) =>
        LET caps == final_file.captions
        IN  /\ Len(caps) = Len(timestamps)
            /\ \A i \in 1..Len(caps) :
                  i <= Len(timestamps) =>
                     /\ caps[i].text = Upper(timestamps[i].word)
                     /\ caps[i].start = timestamps[i].start
                     /\ caps[i].duration = timestamps[i].end - timestamps[i].start
            /\ \A i, j \in 1..Len(caps) :
                  i < j => caps[i].start + caps[i].duration <= caps[j].start

\* C19: in every successful run every caption's window lies within the
\* audio track (the last timestamp's end is at most the audio duration) and
\* the final composite lasts exactly as long as the audio.
C19_CaptionsWithinAudio ==
    ReelComplete =>
        /\ \A i \in 1..Len(timestamps) : timestamps[i].end <= 100 * voice_length
        /\ \A i \in 1..Len(final_file.captions) :
              final_file.captions[i].start + final_file.captions[i].duration
                  <= 100 * voice_length
        /\ final_file.duration = 100 * voice_length

IsDataUri(value) == value.kind = "str" /\ StartsWithDataImage(value.str)

\* C21: whatever location of the response a value comes from, an inline data
\* URI (a string starting with "data:image") is returned by
\* extract_image_payload with type 'b64' and never with type 'url', and
\* save_generated_image never calls session.get with an inline data URI.
C21_DataUriTypedB64 ==
    prog = "payload" =>
       /\ IsDataUri(image_payload.value) => image_payload.type = "b64"
       /\ \A i \in 1..Len(http_get) : ~IsDataUri(http_get[i])

TrailingMarks == {".", ",", "!", "?", ":", ";"}

RECURSIVE WithoutTrailingMarks(_)
WithoutTrailingMarks(token) ==
    IF token # <<>> /\ token[Len(token)] \in TrailingMarks
    THEN WithoutTrailingMarks(SubSeq(token, 1, Len(token) - 1))
    ELSE token

\* the token is a word of the set S, in any letter case, possibly followed by
\* punctuation
ListedIn(token, S) == Lower(WithoutTrailingMarks(token)) \in S

\* C22: in a reel rendered from the heuristic timestamps, every script token
\* that is a word of DANGER_WORDS (of HIGHLIGHT_WORDS), in any letter case,
\* with or without trailing punctuation and without a digit, is shown by
\* compose_reel in the danger (highlight) color: cleaning and uppercasing
\* never turn a listed word into one get_word_color gives the default color.
C22_ListedWordsEffective ==
    (ReelComplete /\ Len(final_file.captions) = Len(Split(script))) =>
       \A i \in 1..Len(final_file.captions) :
          LET token == Split(script)[i]
              shown == final_file.captions[i].color
          IN  ~HasDigit(token) =>
                 /\ ListedIn(token, DANGER_WORDS) => shown = "#FF3B3B"
                 /\ ListedIn(token, HIGHLIGHT_WORDS) => shown = "#00D9FF"

====
